---- MODULE Spec2Model ----
(***************************************************************************)
(* A model of the SwarmShift backend in DEV mode: the user store and the   *)
(* session file (user_store.py, user_store_session.py), the workspace      *)
(* ("RAG") operations (firebase_db.py, main.py), ingestion and search      *)
(* against the vector store (document_processor.py), and the assembly of   *)
(* a chat reply from the agent stream (main.py, chat_interface.py).        *)
(***************************************************************************)
EXTENDS Integers, Sequences, FiniteSets, TLC

(***************************************************************************)
(* Bounds of the model.                                                    *)
(***************************************************************************)
\* Workspaces ever created in one behaviour (uuid4 ids are drawn fresh).
MaxRags == 2
\* Chunks a vector collection may hold before further ingestion is cut off.
MaxStored == 2
\* Files (or URLs) of one upload request.
MaxFiles == 2
\* Events of one agent stream.
MaxEvents == 2
\* Tokens (citations and stretches of plain text) of one response text.
MaxTokens == 2
\* Pages of one file, and pieces (words or characters) of one page's text.
MaxPages == 2
MaxLen == 3
\* Chat calls that run the agents (threads the checkpointer holds).
MaxThreads == 2
\* Steps the graph takes before it raises GraphRecursionError: the library's
\* default is 25, the model takes a smaller limit.
RecursionLimit == 3
\* Messages a chat page's history holds.
MaxMessages == 2
\* chars_per_page, the size of a virtual page of web content (3000 in the
\* code), scaled to the texts of the model.
chars_per_page == 2

(***************************************************************************)
(* Values.                                                                 *)
(***************************************************************************)
\* Python's None.
None == "None"
\* The users that log in (an e-mail address stands for the uuid it is given).
Users == {"u1", "u2"}
\* Display names a request may give a workspace.
Names == {"docs", "notes"}
\* Descriptions a request may give a workspace.
Descriptions == {"d1"}
\* Workspace ids: str(uuid.uuid4()), drawn fresh, modelled by a counter.
RagId(i) == "r" \o ToString(i)

RagIds == {RagId(i) : i \in 1..MaxRags}
\* The uploaded files or URLs, by the `source` their chunks carry.
Sources == {"a.pdf", "b.pdf"}

\* The chunks that extraction and splitting give for a source under the
\* workspace's (immutable) configuration: the same source gives the same chunks.
\* chunk_id is "{source}_{i}", i the 0-based position (process_document).
ChunkCount(src) == IF src = "a.pdf" THEN 2 ELSE 1

ChunksOf(src) == [i \in 1..ChunkCount(src) |->
                    [source |-> src, chunk_id |-> src \o "_" \o ToString(i - 1)]]

\* A chunk as the vector store holds it.  `by` is history, not data: the
\* workspace whose ingestion stored the chunk.
Stored(chunks, rag_id) ==
    [i \in 1..Len(chunks) |->
        [source |-> chunks[i].source, chunk_id |-> chunks[i].chunk_id, by |-> rag_id]]

\* collection_name = f"rag_{uuid.uuid4().hex[:8]}": a fresh generated name.
GeneratedName(rag_id) == "rag_" \o rag_id

VARIABLES
    session,        \* the session file: user_id and current_rag (None: key absent)
    user_store,     \* the user store file: one entry per user
    chroma,         \* the vector store: collection name -> chunks, in insertion order
    next_rag,       \* the number of the next fresh workspace id
    last,           \* the outcome of the most recent request or call
    stream,         \* the agent stream the most recent chat consumed
    checkpointer,   \* the swarm's MemorySaver: the state saved under each thread id
    chroma_manager, \* the global ChromaDBManager instance (None: not constructed)
    session_state   \* st.session_state of the chat page: chat_messages, message_counter

vars == <<session, user_store, chroma, next_rag, last, stream, checkpointer, chroma_manager, session_state>>

(***************************************************************************)
(* The session file (user_store_session.py).                               *)
(***************************************************************************)
EmptySession == [user_id |-> None, current_rag |-> None]

\* init_session().get("user_id", None).get("user_id", None): with no "user_id"
\* key the first get gives None and None.get raises AttributeError.
get_logged_user_id(s) ==
    IF s.user_id = None THEN [raised |-> TRUE, value |-> None]
    ELSE [raised |-> FALSE, value |-> s.user_id]

\* get_session_value(key): a missing key gives None.
get_session_value(s, key) == IF key = "current_rag" THEN s.current_rag ELSE s.user_id

(***************************************************************************)
(* The user store (user_store.py).  An entry holds the maps "rags" and     *)
(* "collections" (an absent map reads as the empty one everywhere); its    *)
(* "vector_store_id" is read by no operation modelled here.                *)
(***************************************************************************)
EmptyMap == [x \in {} |-> None]

AbsentUser == [present |-> FALSE, rags |-> EmptyMap, collections |-> EmptyMap]

\* A map with key k set to v (dict assignment).
Put(m, k, v) == [x \in DOMAIN m \cup {k} |-> IF x = k THEN v ELSE m[x]]

\* A map with key k removed (del).
Del(m, k) == [x \in DOMAIN m \ {k} |-> m[x]]

\* A JSON value of a workspace's "documents" field: an int or a list.
IntDocs(n) == [t |-> "int", n |-> n, items |-> <<>>]
ListDocs(items) == [t |-> "list", n |-> 0, items |-> items]

\* register_user: user_store.update({user_id: {user_id, email, ...}}).
register_user(store, u) ==
    [store EXCEPT ![u] = [AbsentUser EXCEPT !.present = TRUE]]

\* associate_user_to_rag: the entry is created if missing, the workspace is
\* stored with 'documents' replaced by their count, and the collection name
\* is recorded in "collections".
associate_user_to_rag(store, u, rag_id, rag_data) ==
    LET entry == IF store[u].present THEN store[u]
                 ELSE [AbsentUser EXCEPT !.present = TRUE]
        copy == [rag_data EXCEPT !.documents = IntDocs(Len(rag_data.documents.items))]
    IN [store EXCEPT ![u] =
          [entry EXCEPT !.rags = Put(entry.rags, rag_id, copy),
                        !.collections = Put(entry.collections, rag_id,
                                            rag_data.collection_name)]]

\* A removal that forgets the "collections" map.
remove_rag_from_rags_only(store, u, rag_id) ==
    IF ~store[u].present THEN [ok |-> FALSE, store |-> store]
    ELSE [ok |-> TRUE, store |-> [store EXCEPT ![u].rags = Del(@, rag_id)]]

\* remove_rag_from_user_store: False for an unknown user, else the workspace
\* leaves both maps (if it is there) and the result is True.
remove_rag_from_user_store(store, u, rag_id) ==
    IF ~store[u].present THEN [ok |-> FALSE, store |-> store]
    ELSE [ok |-> TRUE,
          store |-> [store EXCEPT ![u].rags = Del(@, rag_id),
                                  ![u].collections = Del(@, rag_id)]]

\* get_rags_details(user_id).get(rag_id): the workspace or None.
HasRag(store, u, rag_id) == store[u].present /\ rag_id \in DOMAIN store[u].rags

\* get_collection_name: None for an unknown user; the workspace's "name" if
\* the workspace is in "rags"; else its entry of "collections"; else None.
get_collection_name(store, u, rag_id) ==
    IF ~store[u].present THEN None
    ELSE IF rag_id \in DOMAIN store[u].rags THEN store[u].rags[rag_id].name
    ELSE IF rag_id \in DOMAIN store[u].collections THEN store[u].collections[rag_id]
    ELSE None

\* get_user_vector_store_path: a user without vector_store_id gets one, and
\* a user missing from the store gets an entry.
get_user_vector_store_path(store, u) == [store EXCEPT ![u].present = TRUE]

\* Python truthiness of a collection name: None and "" are falsy.
Falsy(name) == name = None \/ name = ""

(***************************************************************************)
(* Workspace operations (firebase_db.py, DEV mode).                        *)
(***************************************************************************)
\* dev_create_rag: the workspace record, then associate_user_to_rag.
dev_create_rag(store, u, rag_id, name, description, collection_name) ==
    associate_user_to_rag(store, u, rag_id,
        [name |-> name, description |-> description,
         documents |-> ListDocs(<<>>), collection_name |-> collection_name])

\* dev_update_rag: False if the user or the workspace is unknown, else the
\* fields of `updates` overwrite the workspace's.
dev_update_rag(store, u, rag_id, field, value) ==
    IF ~HasRag(store, u, rag_id) THEN [ok |-> FALSE, store |-> store]
    ELSE [ok |-> TRUE,
          store |-> IF field = "name"
                    THEN [store EXCEPT ![u].rags[rag_id].name = value]
                    ELSE [store EXCEPT ![u].rags[rag_id].description = value]]

\* dev_add_document_to_rag: False if the user or the workspace is unknown;
\* else documents.append(document_info).  When "documents" holds an int the
\* append raises AttributeError, which the except turns into False.
dev_add_document_to_rag(store, u, rag_id, doc) ==
    IF ~HasRag(store, u, rag_id) THEN [ok |-> FALSE, store |-> store]
    ELSE IF store[u].rags[rag_id].documents.t = "list"
    THEN [ok |-> TRUE,
          store |-> [store EXCEPT ![u].rags[rag_id].documents =
                        ListDocs(Append(@.items, doc))]]
    ELSE [ok |-> FALSE, store |-> store]

(***************************************************************************)
(* The vector store, as the code uses it through langchain's Chroma.       *)
(***************************************************************************)
\* Chroma(collection_name=..., client=...): the constructor gets the
\* collection or creates it empty.
GetOrCreate(db, name) == IF name \in DOMAIN db THEN db ELSE Put(db, name, <<>>)

\* Chroma.from_documents: get-or-create, then every document is added under
\* a fresh id, after what the collection holds.
from_documents(db, name, docs) == Put(db, name, GetOrCreate(db, name)[name] \o docs)

Min(a, b) == IF a <= b THEN a ELSE b

\* similarity_search(query, k): the k most relevant chunks, in the adapter's
\* order (here the order of insertion stands for the order of relevance).
\* similarity_search_all is an adapter that ignores k.

similarity_search_all(db, name, k) == db[name]

similarity_search(db, name, k) == SubSeq(db[name], 1, Min(k, Len(db[name])))

\* n_results: int = 3 (search_documents' default).
DefaultK == 3

(***************************************************************************)
(* Ingestion (document_processor.py).                                      *)
(***************************************************************************)
\* The model keys a workspace's configuration may name, and what
\* os.getenv("OPENAI_API_KEY") may give.
EmbeddingModels == {"openai", "local"}

ApiKeys == {None, "sk-key"}

\* DEV_MODE = ENV == "DEV", and ENV defaults to "DEV": the handlers modelled
\* here are those of DEV mode.
DEV_MODE == TRUE

PlaceholderKey == "sk-dummy-key-for-dev-mode"

\* An embedding function that is given the placeholder key outside DEV mode
\* too.
get_embedding_function_placeholder_always(embedding_model, api_key, dev_mode) ==
    IF embedding_model = "openai"
    THEN [raised |-> FALSE, embeddings |-> "OpenAIEmbeddings",
          key |-> IF Falsy(api_key) THEN PlaceholderKey ELSE api_key]
    ELSE [raised |-> FALSE, embeddings |-> "HuggingFaceEmbeddings", key |-> None]

\* get_embedding_function(embedding_model): "openai" without a credential
\* raises ValueError outside DEV mode and takes a placeholder key in DEV
\* mode; any other key gives the local HuggingFace model.
get_embedding_function(embedding_model, api_key, dev_mode) ==
    IF embedding_model = "openai"
    THEN IF Falsy(api_key) /\ ~dev_mode
         THEN [raised |-> TRUE, embeddings |-> None, key |-> None]
         ELSE [raised |-> FALSE, embeddings |-> "OpenAIEmbeddings",
               key |-> IF Falsy(api_key) THEN PlaceholderKey ELSE api_key]
    ELSE [raised |-> FALSE, embeddings |-> "HuggingFaceEmbeddings", key |-> None]

\* vectorize_documents: the user is the session's, the embedding function is
\* obtained, the collection name is get_collection_name's; a falsy name
\* leads to register_collection(rag_id), a call with one argument of a
\* function of three, which raises TypeError.
vectorize_documents(s, store, db, rag_id, docs, embedding_model, api_key, dev_mode) ==
    LET who == get_logged_user_id(s)
        ef == get_embedding_function(embedding_model, api_key, dev_mode)
    IN
    IF who.raised
    THEN [raised |-> TRUE, error |-> "AttributeError", store |-> store,
          chroma |-> db, collection |-> None]
    ELSE IF ef.raised
    THEN [raised |-> TRUE, error |-> "ValueError", store |-> store,
          chroma |-> db, collection |-> None]
    ELSE LET store1 == get_user_vector_store_path(store, who.value)
             name == get_collection_name(store1, who.value, rag_id)
         IN IF Falsy(name)
            THEN [raised |-> TRUE, error |-> "TypeError", store |-> store1,
                  chroma |-> db, collection |-> None]
            ELSE [raised |-> FALSE, error |-> None, store |-> store1,
                  chroma |-> from_documents(db, name, Stored(docs, rag_id)),
                  collection |-> name]

\* process_document / process_web_url: extract, split, vectorize, and the
\* chunk records of the split documents, chunk_id "{source}_{i}".
process_document(s, store, db, rag_id, src, embedding_model, api_key, dev_mode) ==
    LET v == vectorize_documents(s, store, db, rag_id, ChunksOf(src),
                                 embedding_model, api_key, dev_mode)
    IN [raised |-> v.raised, error |-> v.error, store |-> v.store,
        chroma |-> v.chroma, collection |-> v.collection,
        chunks |-> IF v.raised THEN <<>> ELSE ChunksOf(src)]

\* file.filename.lower().endswith(('.pdf', '.doc', '.docx')): the names of
\* Sources end in .pdf, UnsupportedFile is the name of a text file.
UnsupportedFile == "notes.txt"

SupportedFile(filename) == filename # UnsupportedFile

\* process_document for one uploaded file.  `raises` is the environment's:
\* the embedding request of Chroma.from_documents fails, after the
\* constructor got or created the collection and before any chunk is added.
process_file(s, store, db, rag_id, src, raises) ==
    LET r == process_document(s, store, db, rag_id, src, "openai", None, DEV_MODE)
    IN IF raises /\ ~r.raised
       THEN [r EXCEPT !.raised = TRUE, !.error = "EmbeddingError",
                      !.chroma = GetOrCreate(db, r.collection), !.chunks = <<>>]
       ELSE r

\* The loop of a handler that unlinks the temporary file after a processing
\* that returned only (no `finally`).
RECURSIVE ProcessFilesUnlinkOnSuccess(_, _, _, _, _, _, _)
ProcessFilesUnlinkOnSuccess(files, raises, s, store, db, rag_id, acc) ==
    IF files = <<>>
    THEN [raised |-> FALSE, store |-> store, chroma |-> db, all_documents |-> acc,
          created |-> 0, left |-> 0]
    ELSE IF ~SupportedFile(Head(files))
    THEN ProcessFilesUnlinkOnSuccess(Tail(files), Tail(raises), s, store, db,
                                     rag_id, acc)
    ELSE LET r == process_file(s, store, db, rag_id, Head(files), Head(raises))
         IN IF r.raised
            THEN [raised |-> TRUE, store |-> r.store, chroma |-> r.chroma,
                  all_documents |-> acc, created |-> 1, left |-> 1]
            ELSE LET rest == ProcessFilesUnlinkOnSuccess(Tail(files), Tail(raises),
                                 s, r.store, r.chroma, rag_id, acc \o r.chunks)
                 IN [rest EXCEPT !.created = @ + 1]

\* A loop that, when the processing of a file raises, puts the vector store
\* back as the request found it.
ProcessFilesWithRollback(files, raises, s, store, db, rag_id, acc) ==
    LET r == ProcessFilesUnlinkOnSuccess(files, raises, s, store, db, rag_id, acc)
    IN IF r.raised THEN [r EXCEPT !.chroma = db, !.left = 0] ELSE r

\* The loop of upload_documents over the request's files: a file whose name
\* has no supported extension is skipped; for the others a temporary file
\* is created, the document processed and the temporary file unlinked in
\* the `finally`; the first file whose processing raises ends the loop (the
\* exception leaves the handler).  `created` counts the temporary files
\* made, `left` those that exist when the loop is over.  In DEV mode the
\* embedding function is obtained whatever the model key of the workspace's
\* configuration and whatever the credential.
RECURSIVE ProcessFiles(_, _, _, _, _, _, _)
ProcessFiles(files, raises, s, store, db, rag_id, acc) ==
    IF files = <<>>
    THEN [raised |-> FALSE, store |-> store, chroma |-> db, all_documents |-> acc,
          created |-> 0, left |-> 0]
    ELSE IF ~SupportedFile(Head(files))
    THEN ProcessFiles(Tail(files), Tail(raises), s, store, db, rag_id, acc)
    ELSE LET r == process_file(s, store, db, rag_id, Head(files), Head(raises))
         IN IF r.raised
            THEN [raised |-> TRUE, store |-> r.store, chroma |-> r.chroma,
                  all_documents |-> acc, created |-> 1, left |-> 0]
            ELSE LET rest == ProcessFiles(Tail(files), Tail(raises), s, r.store,
                                          r.chroma, rag_id, acc \o r.chunks)
                 IN [rest EXCEPT !.created = @ + 1]

\* The loop of add_urls_to_rag over the request's URLs: a URL whose
\* processing raises is logged and skipped.
RECURSIVE ProcessUrls(_, _, _, _, _, _)
ProcessUrls(urls, s, store, db, rag_id, acc) ==
    IF urls = <<>>
    THEN [raised |-> FALSE, store |-> store, chroma |-> db, all_documents |-> acc,
          created |-> 0, left |-> 0]
    ELSE LET r == process_document(s, store, db, rag_id, Head(urls),
                                   "openai", None, DEV_MODE)
         IN ProcessUrls(Tail(urls), s, r.store, r.chroma, rag_id, acc \o r.chunks)

\* for doc in all_documents: add_document_to_rag(user_id, rag_id, doc), the
\* result of each call dropped.
RECURSIVE AddDocuments(_, _, _, _)
AddDocuments(store, u, rag_id, docs) ==
    IF docs = <<>> THEN store
    ELSE AddDocuments(dev_add_document_to_rag(store, u, rag_id, Head(docs)).store,
                      u, rag_id, Tail(docs))

(***************************************************************************)
(* Search (document_processor.py, agents/swarm_workflow.py).               *)
(***************************************************************************)
\* str(e) of the exception the vector store raises in similarity_search.
ExceptionMessage == "chroma: query failed"

\* The three synthetic results and the formatted result of a chunk (which
\* has no "error" key; the chunk's id stands for its page_content).
NoCollectionResult == [source |-> "erreur", error |-> "True", kind |-> "no_collection",
                       content |-> "Erreur: Aucune collection trouvee",
                       chunk |-> None, by |-> None]
EmptyResult == [source |-> "information", error |-> "False", kind |-> "empty",
                content |-> "Aucun document trouve dans la collection",
                chunk |-> None, by |-> None]
ExceptionResult == [source |-> "erreur", error |-> "True", kind |-> "exception",
                    content |-> "Erreur lors de la recherche: " \o ExceptionMessage,
                    chunk |-> None, by |-> None]
ChunkResult(c) == [source |-> c.source, error |-> "absent", kind |-> "chunk",
                   content |-> c.chunk_id, chunk |-> c.chunk_id, by |-> c.by]

\* A search that goes on to the similarity search whatever the size is.
CollectionIsEmptyNever(size) == FALSE

\* `if collection_size == 0:` before the similarity search.
CollectionIsEmpty(size) == size = 0

\* search_documents(query, embedding_model, n_results).  The user is read
\* before the try; inside it the workspace is the session's "current_rag".
\* `fail` says whether the vector store raises in similarity_search.
search_documents(s, store, db, k, fail) ==
    LET who == get_logged_user_id(s) IN
    IF who.raised
    THEN [raised |-> TRUE, results |-> <<>>, store |-> store, chroma |-> db,
          user |-> None, rag_id |-> None, collection |-> None, size |-> -1,
          ran_similarity |-> FALSE, failed |-> FALSE]
    ELSE LET store1 == get_user_vector_store_path(store, who.value)
             rag_id == get_session_value(s, "current_rag")
             name == get_collection_name(store1, who.value, rag_id)
             base == [raised |-> FALSE, results |-> <<>>, store |-> store1,
                      chroma |-> db, user |-> who.value, rag_id |-> rag_id,
                      collection |-> name, size |-> -1, ran_similarity |-> FALSE,
                      failed |-> FALSE]
         IN IF Falsy(name)
            THEN [base EXCEPT !.results = <<NoCollectionResult>>]
            ELSE LET db1 == GetOrCreate(db, name)
                     size == Len(db1[name])
                     seen == [base EXCEPT !.chroma = db1, !.size = size]
                 IN IF CollectionIsEmpty(size)
                    THEN [seen EXCEPT !.results = <<EmptyResult>>]
                    ELSE IF fail
                    THEN [seen EXCEPT !.results = <<ExceptionResult>>,
                                      !.ran_similarity = TRUE, !.failed = TRUE]
                    ELSE LET found == similarity_search(db1, name, k)
                         IN [seen EXCEPT !.ran_similarity = TRUE,
                               !.results = [i \in 1..Len(found) |->
                                               ChunkResult(found[i])]]

\* The retrieval agent's tool (swarm_workflow.search_documents): the results
\* formatted as text, or the text of the exception search_docs raised.
tool_search_documents(answer) ==
    IF answer.raised THEN "error_text" ELSE "formatted_results"

(***************************************************************************)
(* The agent stream and the two consumers of it.                           *)
(***************************************************************************)
\* Python values that the consumers compare: a str or a tuple.
Str(v) == [t |-> "str", v |-> v, items |-> <<>>]
Tuple(items) == [t |-> "tuple", v |-> "", items |-> items]

\* Python's ==: values of different types are unequal.
PyEq(a, b) == a.t = b.t /\ a.v = b.v /\ a.items = b.items

\* app.stream(..., subgraphs=True) yields pairs (namespace, update): the
\* namespace is a tuple, the path of the subgraph (here that of the agent
\* that ran); the update maps the node that ran to what it wrote.
Namespaces == {Tuple(<<"rag:1">>)}

\* Contents of a message: an AI message that only calls a tool has "".
Contents == {"", "A", "B"}

\* What a node wrote: None, a dict without a messages key, or a dict whose
\* "messages" is a list of messages (given by their content).
NoneUpdate == [kind |-> "none", has_messages |-> FALSE, messages |-> <<>>]
OtherUpdate == [kind |-> "dict", has_messages |-> FALSE, messages |-> <<>>]
MessagesUpdate(msgs) == [kind |-> "dict", has_messages |-> TRUE, messages |-> msgs]

MessageLists == {<<>>} \cup {<<c>> : c \in Contents}
                       \cup {<<c, d>> : c \in Contents, d \in Contents}

NodeUpdates == {NoneUpdate, OtherUpdate} \cup {MessagesUpdate(m) : m \in MessageLists}

Events == [ns : Namespaces, node : {"rag"}, update : NodeUpdates]

RECURSIVE SeqsUpTo(_, _)
SeqsUpTo(S, n) ==
    IF n = 0 THEN {<<>>}
    ELSE LET shorter == SeqsUpTo(S, n - 1)
         IN shorter \cup {Append(q, x) : q \in shorter, x \in S}

Streams == SeqsUpTo(Events, MaxEvents)

\* ChatResponse.response when no text was assembled (accents dropped).
Fallback == "Desole, je n'ai pas pu generer une reponse."

RECURSIVE JoinContents(_)
JoinContents(msgs) ==
    IF msgs = <<>> THEN "" ELSE Head(msgs) \o JoinContents(Tail(msgs))

\* One turn of chat_with_rag's loop `for event_type, data in stream_data`:
\* the first component of the pair is compared with "assistant", and only
\* then are the contents under data["assistant"] appended.
EventText(ev) ==
    IF PyEq(ev.ns, Str("assistant"))
    THEN IF ev.node = "assistant" /\ ev.update.has_messages
         THEN JoinContents(ev.update.messages) ELSE ""
    ELSE ""

RECURSIVE FinalResponse(_)
FinalResponse(st) ==
    IF st = <<>> THEN "" ELSE EventText(Head(st)) \o FinalResponse(Tail(st))

\* response = final_response or "Désolé, ..."
ChatResponse(st) == IF FinalResponse(st) = "" THEN Fallback ELSE FinalResponse(st)

\* An event that carries a non-empty message list.
HasMessages(ev) ==
    ev.update.kind = "dict" /\ ev.update.has_messages /\ ev.update.messages # <<>>

\* add_assistant_response's loop: last_message is the last message of the
\* last event whose message list is non-empty, None if there is none.
RECURSIVE LastMessage(_)
LastMessage(st) ==
    IF st = <<>> THEN [found |-> FALSE, content |-> None]
    ELSE LET ev == st[Len(st)]
         IN IF HasMessages(ev)
            THEN [found |-> TRUE, content |-> ev.update.messages[Len(ev.update.messages)]]
            ELSE LastMessage(SubSeq(st, 1, Len(st) - 1))

\* 'content': last_message.content if hasattr(last_message, 'content') else
\* str(last_message); str(None) is "None".
AssistantContent(st) ==
    IF LastMessage(st).found THEN LastMessage(st).content ELSE "None"

(***************************************************************************)
(* The chat page's session state (chat_interface.py).                      *)
(***************************************************************************)
\* st.session_state before initialize_chat_state: neither key is set
\* (`keys` are the keys the state holds).
NoChatState == [keys |-> {}, chat_messages |-> <<>>, message_counter |-> 0]

\* initialize_chat_state: each key is set if it is not in the state.
initialize_chat_state(ss) ==
    [keys |-> {"chat_messages", "message_counter"},
     chat_messages |-> IF "chat_messages" \in ss.keys THEN ss.chat_messages ELSE <<>>,
     message_counter |-> IF "message_counter" \in ss.keys THEN ss.message_counter
                         ELSE 0]

\* st.session_state.get('message_counter', 0).
get_message_counter(ss) ==
    IF "message_counter" \in ss.keys THEN ss.message_counter ELSE 0

\* An add_user_message that leaves the counter as it is.
add_user_message_keeps_counter(ss, message) ==
    [ss EXCEPT !.chat_messages =
        Append(@, [type |-> "user", content |-> message,
                   timestamp |-> get_message_counter(ss)])]

\* add_user_message(message): the message is appended with the counter as
\* its timestamp, then the counter is incremented.
add_user_message(ss, message) ==
    [keys |-> ss.keys \cup {"message_counter"},
     chat_messages |-> Append(ss.chat_messages,
                              [type |-> "user", content |-> message,
                               timestamp |-> get_message_counter(ss)]),
     message_counter |-> get_message_counter(ss) + 1]

\* add_assistant_response(stream_data): the last message of the stream is
\* appended with the counter as its timestamp, then the counter is
\* incremented.
add_assistant_response(ss, stream_data) ==
    [keys |-> ss.keys \cup {"message_counter"},
     chat_messages |-> Append(ss.chat_messages,
                              [type |-> "assistant",
                               content |-> AssistantContent(stream_data),
                               timestamp |-> get_message_counter(ss)]),
     message_counter |-> get_message_counter(ss) + 1]

(***************************************************************************)
(* Citations (utils.py, agents/swarm_workflow.py).  A response text is a   *)
(* sequence of tokens: a stretch of plain text, or a citation written      *)
(* "[name.ext, page N]" (bracket) or "(name.ext, page N)" (paren).         *)
(***************************************************************************)
\* The extensions of both patterns: (?:pdf|docx|doc|txt).
Extensions == {"pdf", "docx", "doc", "txt"}

\* The documents a text cites; one of them has an extension outside the set.
Cited == {[name |-> "report", ext |-> "pdf"], [name |-> "notes", ext |-> "txt"],
          [name |-> "figure", ext |-> "png"]}

PlainText == [form |-> "text", doc |-> [name |-> "", ext |-> ""], page |-> 0]

Tokens == {PlainText} \cup [form : {"bracket", "paren"}, doc : Cited, page : {4}]

\* f"{document}, page {page}"
Citation(t) == t.doc.name \o "." \o t.doc.ext \o ", page " \o ToString(t.page)

\* re.findall(pattern, response) for the pattern of one form: its matches,
\* from left to right.
RECURSIVE findall(_, _)
findall(form, text) ==
    IF text = <<>> THEN <<>>
    ELSE (IF Head(text).form = form /\ Head(text).doc.ext \in Extensions
          THEN <<Citation(Head(text))>> ELSE <<>>) \o findall(form, Tail(text))

\* utils.extract_sources_from_response: the matches of the bracket pattern,
\* then the matches of the paren pattern.
extract_sources_from_response(text) == findall("bracket", text) \o findall("paren", text)

\* swarm_workflow.extract_rag_sources(response): the bracket pattern only.
extract_rag_sources(text) == findall("bracket", text)

(***************************************************************************)
(* The web extractor (web_scraper.py).                                     *)
(***************************************************************************)
\* The inputs, and what urllib.parse.urlparse makes of each.
Urls == {"not a url", "example.com/page", "//example.com/page", "http:///page",
         "mailto:a@example.com", "http://example.com/page"}

urlparse(url) ==
    CASE url = "not a url" -> [scheme |-> "", netloc |-> ""]
      [] url = "example.com/page" -> [scheme |-> "", netloc |-> ""]
      [] url = "//example.com/page" -> [scheme |-> "", netloc |-> "example.com"]
      [] url = "http:///page" -> [scheme |-> "http", netloc |-> ""]
      [] url = "mailto:a@example.com" -> [scheme |-> "mailto", netloc |-> ""]
      [] OTHER -> [scheme |-> "http", netloc |-> "example.com"]

\* A validity check that looks at the scheme only.
InvalidUrlSchemeOnly(parsed_url) == parsed_url.scheme = ""

\* `if not parsed_url.scheme or not parsed_url.netloc:`
InvalidUrl(parsed_url) == parsed_url.scheme = "" \/ parsed_url.netloc = ""

\* extract_text_from_url(url).  `net` is what requests.get does: it returns a
\* page, or it raises (and raise_for_status raises on an HTTP error).
extract_text_from_url(url, net) ==
    IF InvalidUrl(urlparse(url))
    THEN [requests |-> 0,
          records |-> <<[content |-> <<1, 2>>, page |-> 0, source |-> url,
                         error |-> TRUE]>>]
    ELSE IF net = "raises"
    THEN [requests |-> 1,
          records |-> <<[content |-> <<1, 2>>, page |-> 0, source |-> url,
                         error |-> TRUE]>>]
    ELSE [requests |-> 1,
          records |-> <<[content |-> <<1, 2>>, page |-> 1,
                         source |-> "Web: " \o url, error |-> FALSE]>>]

(***************************************************************************)
(* Extraction and splitting (document_processor.py).  A text is the        *)
(* sequence of its pieces, the units the splitter does not cut (words, or  *)
(* characters for the recursive splitter's last separator); a piece is     *)
(* named by its position in the text.                                      *)
(***************************************************************************)
TextOfLen(n) == [i \in 1..n |-> i]

\* The files: one to MaxPages pages, each of 0 (blank) to MaxLen pieces.
Files == SeqsUpTo({TextOfLen(n) : n \in 0..MaxLen}, MaxPages) \ {<<>>}

\* The records of pages first..last of a file, blank pages left out:
\* `for page_num, page in enumerate(doc): if text.strip(): result.append(...)`.
RECURSIVE PageRecords(_, _, _, _)
PageRecords(pages, first, last_page, src) ==
    IF first > last_page THEN <<>>
    ELSE (IF pages[first] = <<>> THEN <<>>
          ELSE <<[content |-> pages[first], page |-> first, source |-> src,
                  error |-> FALSE]>>)
         \o PageRecords(pages, first + 1, last_page, src)

\* extract_text_from_pdf.  PyMuPDF reads `fitz_read` pages before it raises
\* (all of them: it does not raise); the except then reads the file again
\* with PyPDF2 into the same `result`, `pypdf_read` pages before that raises
\* too, and then the error record is appended.
extract_text_from_pdf(pages, src, fitz_read, pypdf_read) ==
    LET n == Len(pages)
        first_try == PageRecords(pages, 1, fitz_read, src)
    IN IF fitz_read = n THEN first_try
       ELSE first_try \o PageRecords(pages, 1, pypdf_read, src)
            \o (IF pypdf_read = n THEN <<>>
                ELSE <<[content |-> <<1, 2>>, page |-> 0, source |-> src,
                        error |-> TRUE]>>)

\* The text of a web page, a sequence of characters: letters and line feeds.
LF == "LF"

WebTexts == SeqsUpTo({"a", LF}, MaxLen + 2)

\* str.split(sep): the pieces between the occurrences of sep, found from the
\* left; `cur` is the piece being read.
RECURSIVE split(_, _, _)
split(text, sep, cur) ==
    IF text = <<>> THEN <<cur>>
    ELSE IF Len(text) >= Len(sep) /\ SubSeq(text, 1, Len(sep)) = sep
    THEN <<cur>> \o split(SubSeq(text, Len(sep) + 1, Len(text)), sep, <<>>)
    ELSE split(Tail(text), sep, Append(cur, Head(text)))

\* sep.join(pieces).
RECURSIVE join(_, _)
join(pieces, sep) ==
    IF pieces = <<>> THEN <<>>
    ELSE IF Len(pieces) = 1 THEN pieces[1]
    ELSE pieces[1] \o sep \o join(Tail(pieces), sep)

\* "\n".join([line for line in main_content.split('\n') if line.strip()]).
clean_lines(main_content) ==
    join(SelectSeq(split(main_content, <<LF>>, <<>>), LAMBDA line : line # <<>>),
         <<LF>>)

\* The loop over the paragraphs: a page is closed when the next paragraph
\* would take it over chars_per_page and it is not empty.
RECURSIVE fill_pages(_, _, _)
fill_pages(paragraphs, current_page, current_content) ==
    IF paragraphs = <<>>
    THEN IF current_content # <<>>
         THEN <<[content |-> current_content, page |-> current_page]>>
         ELSE <<>>
    ELSE IF Len(current_content) + Len(Head(paragraphs)) > chars_per_page
            /\ current_content # <<>>
    THEN <<[content |-> current_content, page |-> current_page]>>
         \o fill_pages(Tail(paragraphs), current_page + 1,
                       Head(paragraphs) \o <<LF, LF>>)
    ELSE fill_pages(Tail(paragraphs), current_page,
                    current_content \o Head(paragraphs) \o <<LF, LF>>)

\* The virtual pages extract_text_from_url makes of the text of a page: the
\* lines are cleaned, a short content is one page, a long one is split at
\* "\n\n" and its paragraphs gathered into pages.
virtual_pages(main_content) ==
    LET content == clean_lines(main_content)
    IN IF Len(content) <= chars_per_page
       THEN <<[content |-> content, page |-> 1]>>
       ELSE fill_pages(split(content, <<LF, LF>>, <<>>), 1, <<>>)

\* (chunk_size, chunk_overlap) of a workspace's configuration.
SplitConfigs == {<<1, 0>>, <<2, 0>>, <<2, 1>>, <<3, 1>>}

SplitMethods == {"recursive", "character"}

\* The text splitter on one text: pieces are gathered up to chunk_size, and
\* the next chunk starts chunk_overlap pieces before the end of the last.
RECURSIVE merge_splits(_, _, _)
merge_splits(pieces, chunk_size, chunk_overlap) ==
    IF Len(pieces) <= chunk_size THEN <<pieces>>
    ELSE <<SubSeq(pieces, 1, chunk_size)>>
         \o merge_splits(SubSeq(pieces, chunk_size - chunk_overlap + 1, Len(pieces)),
                         chunk_size, chunk_overlap)

\* splitter.split_documents on one document: every chunk keeps the
\* document's metadata.  `record` is history: the position of the document.
SplitOne(doc, record, chunk_size, chunk_overlap) ==
    LET parts == merge_splits(doc.content, chunk_size, chunk_overlap)
    IN [i \in 1..Len(parts) |->
          [content |-> parts[i], page |-> doc.page, source |-> doc.source,
           error |-> doc.error, record |-> record]]

\* split_text: every record, the error records too, becomes a LangChain
\* document of the list that split_documents is given.  Both split methods
\* gather the pieces of a text in the same way.
RECURSIVE SplitFrom(_, _, _, _)
SplitFrom(documents, record, chunk_size, chunk_overlap) ==
    IF record > Len(documents) THEN <<>>
    ELSE SplitOne(documents[record], record, chunk_size, chunk_overlap)
         \o SplitFrom(documents, record + 1, chunk_size, chunk_overlap)

split_text(documents, split_method, chunk_size, chunk_overlap) ==
    SplitFrom(documents, 1, chunk_size, chunk_overlap)

\* process_document / process_web_url: `for i, doc in enumerate(langchain_docs)`
\* gives each chunk the chunk_id f"{source}_{i}".
chunk_records(langchain_docs) ==
    [i \in 1..Len(langchain_docs) |->
        [content |-> langchain_docs[i].content, page |-> langchain_docs[i].page,
         source |-> langchain_docs[i].source,
         chunk_id |-> langchain_docs[i].source \o "_" \o ToString(i - 1)]]

(***************************************************************************)
(* The vector store manager (chroma_manager.py).                           *)
(***************************************************************************)
\* No instance: `chroma_manager = ChromaDBManager()` has not run, or raised.
NoManager == [exists |-> FALSE, client |-> None]

\* The instance after a construction that connected.
Connected == [exists |-> TRUE, client |-> "HttpClient"]

\* The names a collection is asked for by.
CollectionNames == Names \cup {GeneratedName(RagId(1))}

\* An initialisation that logs a connection failure and goes on.
init_client_logs_failure(connects) ==
    IF connects THEN [raised |-> FALSE, error |-> None, client |-> "HttpClient"]
    ELSE [raised |-> FALSE, error |-> None, client |-> None]

\* _init_client: chromadb.HttpClient(...) in DEV mode and outside it; any
\* exception sets self.client = None and raises ConnectionError.
init_client(connects) ==
    IF connects THEN [raised |-> FALSE, error |-> None, client |-> "HttpClient"]
    ELSE [raised |-> TRUE, error |-> "ConnectionError", client |-> None]

\* ChromaDBManager(): self.client = None; self._init_client().  An exception
\* of __init__ leaves no instance.
ChromaDBManager(connects) ==
    LET r == init_client(connects)
    IN [raised |-> r.raised, error |-> r.error,
        manager |-> IF r.raised THEN NoManager
                    ELSE [exists |-> TRUE, client |-> r.client]]

\* get_client: `if not self.client: self._init_client()`, then
\* `return self.client`.
get_client(manager, connects) ==
    IF manager.client = None
    THEN LET r == init_client(connects)
         IN [raised |-> r.raised, error |-> r.error,
             manager |-> [manager EXCEPT !.client = r.client],
             client |-> r.client]
    ELSE [raised |-> FALSE, error |-> None, manager |-> manager,
          client |-> manager.client]

\* get_or_create_collection: any exception (of get_client, of the absent
\* client, of the request to the server) is printed and None is returned.
get_or_create_collection(manager, db, name, connects, fails) ==
    LET c == get_client(manager, connects)
    IN IF c.raised \/ c.client = None \/ fails
       THEN [manager |-> c.manager, chroma |-> db, returned |-> None]
       ELSE [manager |-> c.manager, chroma |-> GetOrCreate(db, name),
             returned |-> name]

\* delete_collection: True when the server deleted the collection, False on
\* any exception (the server raises for a collection it does not have).
delete_collection(manager, db, name, connects, fails) ==
    LET c == get_client(manager, connects)
    IN IF c.raised \/ c.client = None \/ fails \/ name \notin DOMAIN db
       THEN [manager |-> c.manager, chroma |-> db, returned |-> FALSE]
       ELSE [manager |-> c.manager, chroma |-> Del(db, name), returned |-> TRUE]

\* list_collections: the collections, [] on any exception.
list_collections(manager, db, connects, fails) ==
    LET c == get_client(manager, connects)
    IN IF c.raised \/ c.client = None \/ fails
       THEN [manager |-> c.manager, returned |-> {}]
       ELSE [manager |-> c.manager, returned |-> DOMAIN db]

(***************************************************************************)
(* The swarm of agents and its checkpointer.                               *)
(***************************************************************************)
Agents == {"receptionist", "calculator", "rag"}

\* create_swarm([...], default_active_agent="receptionist").
DefaultActiveAgent == "receptionist"

\* Agents that are each given a handoff tool to every agent, itself included.
HandoffToolsToAll(agent) == Agents

\* The handoff tools each agent is created with.
HandoffTools(agent) ==
    CASE agent = "receptionist" -> {"calculator", "rag"}
      [] agent = "calculator" -> {"receptionist", "rag"}
      [] OTHER -> {"receptionist", "calculator"}

\* The agents handed to, one after the other, by a run that starts at
\* `start`: which tool an agent calls is the language model's choice.
RECURSIVE IsRoute(_, _)
IsRoute(start, route) ==
    IF route = <<>> THEN TRUE
    ELSE /\ Head(route) \in HandoffTools(start)
         /\ IsRoute(Head(route), Tail(route))

Queries == {"q1", "q2"}

\* A thread id that is the same for every call.
thread_id_of_first_call(cp) == 1

\* "thread_id": str(uuid.uuid4()): an id no earlier call had.  The ids are
\* numbered in the order of their first use.
thread_id(cp) == Len(cp) + 1

\* MemorySaver: the state saved under the thread, or none; without a saved
\* state the swarm starts with no message at its default active agent.
get_state(cp, thread) ==
    IF thread \in 1..Len(cp) THEN cp[thread]
    ELSE [messages |-> <<>>, active_agent |-> DefaultActiveAgent]

put_state(cp, thread, state) ==
    IF thread \in 1..Len(cp) THEN [cp EXCEPT ![thread] = state]
    ELSE Append(cp, state)

\* AgentWorkflow.stream(query, ...): app.stream({"messages": [query]}, config,
\* subgraphs=True) under a new thread id.  The query is added to the thread's
\* messages, the active agent runs, each handoff makes the target the active
\* agent, and the agent that hands off no more answers.  No hop limit is
\* configured: a run of RecursionLimit steps raises GraphRecursionError.
\* The state is saved under the thread id.
stream_agent_workflow(cp, query, route) ==
    LET thread == thread_id(cp)
        saved == get_state(cp, thread)
        history == Append(saved.messages, query)
        raises == Len(route) >= RecursionLimit
        agent == IF route = <<>> THEN saved.active_agent ELSE route[Len(route)]
        state == [messages |-> IF raises THEN history ELSE Append(history, "answer"),
                  active_agent |-> agent]
    IN [thread |-> thread, thread_used |-> thread \in 1..Len(cp),
        history |-> history, start_agent |-> saved.active_agent,
        hops |-> Len(route), active_agent |-> agent, recursion_error |-> raises,
        checkpointer |-> put_state(cp, thread, state)]

\* extract_rag_sources called with the positional arguments `args`: the
\* function takes one, the response; any other number is a TypeError.
call_extract_rag_sources(args, values) ==
    IF Len(args) = 1
    THEN [raised |-> FALSE, sources |-> extract_rag_sources(values[1])]
    ELSE [raised |-> TRUE, sources |-> <<>>]

\* chat_with_rag's extraction of the sources:
\*   try: sources = extract_rag_sources(documents, request.message)
\*   except Exception: sources = []
chat_sources(documents, message) ==
    LET args == <<"documents", "request.message">>
        c == call_extract_rag_sources(args, <<documents, message>>)
    IN [extracted_from |-> args, extraction_raised |-> c.raised,
        sources |-> IF c.raised THEN <<>> ELSE c.sources]

(***************************************************************************)
(* Initial state: empty session and store files, an empty vector store.    *)
(***************************************************************************)
\* The outcome of a request: which operation, its reply, and what a check
\* of the reply needs of the state the request found.
NoOutcome ==
    [op |-> "none", status |-> 0, ok |-> FALSE, rag_id |-> None,
     \* ingestion: the chunks the reply counts, the collection written, and
     \* what the collection and the document list held before
     reported |-> 0, chunks |-> <<>>, collection |-> None,
     docs_before |-> IntDocs(0), coll_before |-> <<>>,
     \* search: the answer, the workspace and collection resolved, the size
     \* seen, whether similarity_search ran, what the tool returned
     searched |-> FALSE, raised |-> FALSE, results |-> <<>>, user |-> None,
     searched_rag |-> None, size |-> -1, ran_similarity |-> FALSE,
     existed |-> FALSE, tool |-> None, k |-> 0, failed |-> FALSE,
     \* chat: ChatResponse.response, or the content add_assistant_response kept
     response |-> None,
     \* chat: ChatResponse.sources, what the citation extractor was called
     \* with and whether the call raised
     sources |-> <<>>, extracted_from |-> <<>>, extraction_raised |-> FALSE,
     \* chat: the query, the thread id of the run and whether an earlier run
     \* had it, the messages and the active agent the run started with, its
     \* handoffs, the agent it ended with, whether the graph raised
     query |-> None, thread |-> 0, thread_used |-> FALSE, history |-> <<>>,
     start_agent |-> None, hops |-> 0, active_agent |-> None,
     recursion_error |-> FALSE,
     \* process_document: the exception raised, the collection name resolved
     \* before the call, whether the vector store was written, and the
     \* embedding function obtained
     error |-> None, name_before |-> None, written |-> FALSE,
     \* a request whose dependency is modelled: the token it bore and whether
     \* the session held a user when it came
     token |-> None, logged |-> TRUE,
     \* an upload: temporary files made, and left when the request ends
     tmp_created |-> 0, tmp_left |-> 0,
     \* a chat: the agents handed to, in order
     route |-> <<>>,
     embedding |-> [raised |-> FALSE, embeddings |-> None, key |-> None],
     \* a function applied on its own: its argument, an intermediate value,
     \* its result, and the HTTP requests it made
     input |-> <<>>, split |-> <<>>, output |-> <<>>, requests |-> 0]

Outcome(op, status, rag_id) ==
    [NoOutcome EXCEPT !.op = op, !.status = status, !.rag_id = rag_id]

Init ==
    /\ session = EmptySession
    /\ user_store = [u \in Users |-> AbsentUser]
    /\ chroma = EmptyMap
    /\ next_rag = 1
    /\ last = NoOutcome
    /\ stream = <<>>
    /\ checkpointer = <<>>
    /\ session_state = NoChatState
    /\ chroma_manager = Connected

\* get_current_user_from_token in DEV mode: the user is the session's,
\* whatever token the request bears; the handlers below run for that user.
Authenticated == ~get_logged_user_id(session).raised

CurrentUser == get_logged_user_id(session).value

\* is_authenticated() / check_user_logged(): "user_id" in init_session().
check_user_logged(s) == s.user_id # None

\* get_current_user_from_token(credentials), the dependency of every
\* protected route: 401 without credentials; in DEV mode the user is
\* get_logged_user_id()'s, whose AttributeError (no "user_id" in the session)
\* no handler catches, so the reply is 500; 401 for a falsy user id and
\* outside DEV mode.  The token itself is not read.
get_current_user_from_token(credentials, s, dev_mode) ==
    IF credentials = None THEN [status |-> 401, user |-> None]
    ELSE IF dev_mode
    THEN LET who == get_logged_user_id(s)
         IN IF who.raised THEN [status |-> 500, user |-> None]
            ELSE IF Falsy(who.value) THEN [status |-> 401, user |-> None]
            ELSE [status |-> 200, user |-> who.value]
    ELSE [status |-> 401, user |-> None]

\* What a request bears: no Authorization header, or the token APIClient.login
\* kept, which is the user_id of a login's reply.
BearerTokens == {None} \cup {u \in Users : user_store[u].present}

\* The protected routes whose bodies are the handlers below.
ProtectedRoutes == {"logout", "create", "update", "delete", "upload", "urls", "chat"}

(***************************************************************************)
(* Session operations.                                                     *)
(***************************************************************************)
\* POST /api/auth/login (dev_login): an unknown e-mail is registered; the
\* session's "user_id" becomes the user's record.
Login(u) ==
    /\ user_store' = IF user_store[u].present THEN user_store
                     ELSE register_user(user_store, u)
    /\ session' = [session EXCEPT !.user_id = u]
    /\ last' = Outcome("login", 200, None)
    /\ UNCHANGED <<chroma, next_rag, stream, checkpointer, chroma_manager, session_state>>

\* POST /api/auth/logout: terminate_session removes the session file.
Logout ==
    /\ Authenticated
    /\ session' = EmptySession
    /\ last' = Outcome("logout", 200, None)
    /\ UNCHANGED <<user_store, chroma, next_rag, stream, checkpointer, chroma_manager, session_state>>

\* GET /api/auth/me: get_current_user_info, with its dependency.
GetCurrentUserInfo(token) ==
    /\ token \in BearerTokens
    /\ LET d == get_current_user_from_token(token, session, DEV_MODE)
       IN last' = [Outcome("me", d.status, None) EXCEPT
                     !.token = token, !.user = d.user,
                     !.logged = check_user_logged(session)]
    /\ UNCHANGED <<session, user_store, chroma, next_rag, stream, checkpointer, chroma_manager, session_state>>

\* A request of a protected route whose dependency raises: the reply is the
\* dependency's, the body of the handler does not run.
Rejected(route, token) ==
    /\ token \in BearerTokens
    /\ LET d == get_current_user_from_token(token, session, DEV_MODE)
       IN /\ d.status # 200
          /\ last' = [Outcome(route, d.status, None) EXCEPT
                        !.token = token, !.logged = check_user_logged(session)]
    /\ UNCHANGED <<session, user_store, chroma, next_rag, stream, checkpointer, chroma_manager, session_state>>

\* update_session_value({"current_rag": rag_id}): the front end records the
\* workspace the user selected.
SelectRag(rag_id) ==
    /\ session' = [session EXCEPT !.current_rag = rag_id]
    /\ last' = Outcome("select", 0, rag_id)
    /\ UNCHANGED <<user_store, chroma, next_rag, stream, checkpointer, chroma_manager, session_state>>

(***************************************************************************)
(* Workspace handlers (main.py).                                           *)
(***************************************************************************)
\* POST /api/rags: create_new_rag.
CreateRag(name, description) ==
    /\ Authenticated
    /\ next_rag <= MaxRags
    /\ user_store' = dev_create_rag(user_store, CurrentUser, RagId(next_rag), name,
                                    description, GeneratedName(RagId(next_rag)))
    /\ next_rag' = next_rag + 1
    /\ last' = [Outcome("create", 200, RagId(next_rag)) EXCEPT !.ok = TRUE]
    /\ UNCHANGED <<session, chroma, stream, checkpointer, chroma_manager, session_state>>

\* PUT /api/rags/{rag_id}: update_rag_details with a name or a description.
UpdateRag(rag_id, field, value) ==
    /\ Authenticated
    /\ LET r == dev_update_rag(user_store, CurrentUser, rag_id, field, value)
       IN /\ user_store' = r.store
          /\ last' = [Outcome("update", 200, rag_id) EXCEPT !.ok = r.ok]
    /\ UNCHANGED <<session, chroma, next_rag, stream, checkpointer, chroma_manager, session_state>>

\* DELETE /api/rags/{rag_id}: delete_rag_endpoint.  Nothing here or below it
\* calls the vector store.
DeleteRag(rag_id) ==
    /\ Authenticated
    /\ LET r == remove_rag_from_user_store(user_store, CurrentUser, rag_id)
       IN /\ user_store' = r.store
          /\ last' = [Outcome("delete", 200, rag_id) EXCEPT !.ok = r.ok]
    /\ UNCHANGED <<session, chroma, next_rag, stream, checkpointer, chroma_manager, session_state>>

(***************************************************************************)
(* Ingestion handlers (main.py).                                           *)
(***************************************************************************)
\* The requests: one to MaxFiles files (or URLs), by source.
UploadRequests == SeqsUpTo(Sources, MaxFiles) \ {<<>>}

\* Every embedding request of an upload succeeds.
NoRaise(files) == [i \in 1..Len(files) |-> FALSE]

\* Uploads that may hold a file of an unsupported type.
MixedUploads == SeqsUpTo(Sources \cup {UnsupportedFile}, MaxFiles) \ {<<>>}

RECURSIVE TotalChunks(_)
TotalChunks(files) ==
    IF files = <<>> THEN 0 ELSE ChunkCount(Head(files)) + TotalChunks(Tail(files))

\* What a collection holds (nothing if it does not exist).
Held(db, name) == IF name \in DOMAIN db THEN db[name] ELSE <<>>

\* The handler of an ingestion request, given the result of its loop:
\* 404 for a workspace get_rag does not find, 500 if the loop raised, else
\* every chunk is handed to add_document_to_rag and the reply reports
\* len(all_documents) chunks added.
Ingest(op, rag_id, files, p) ==
    LET u == CurrentUser
        name == get_collection_name(user_store, u, rag_id)
    IN IF ~HasRag(user_store, u, rag_id)
       THEN /\ last' = Outcome(op, 404, rag_id)
            /\ UNCHANGED <<user_store, chroma>>
       ELSE /\ Len(Held(chroma, name)) + TotalChunks(files) <= MaxStored
            /\ chroma' = p.chroma
            /\ user_store' = IF p.raised THEN p.store
                             ELSE AddDocuments(p.store, u, rag_id, p.all_documents)
            /\ last' = [Outcome(op, IF p.raised THEN 500 ELSE 200, rag_id) EXCEPT
                          !.ok = ~p.raised,
                          !.reported = IF p.raised THEN 0 ELSE Len(p.all_documents),
                          !.chunks = p.all_documents,
                          !.tmp_created = p.created, !.tmp_left = p.left,
                          !.input = files,
                          !.collection = name,
                          !.docs_before = user_store[u].rags[rag_id].documents,
                          !.coll_before = Held(chroma, name)]

\* POST /api/rags/{rag_id}/documents/upload: upload_documents.
UploadDocuments(rag_id, files, raises) ==
    /\ Authenticated
    /\ Ingest("upload", rag_id, files,
              ProcessFiles(files, raises, session, user_store, chroma, rag_id, <<>>))
    /\ UNCHANGED <<session, next_rag, stream, checkpointer, chroma_manager, session_state>>

\* POST /api/rags/{rag_id}/documents/urls: add_urls_to_rag.
AddUrls(rag_id, urls) ==
    /\ Authenticated
    /\ Ingest("urls", rag_id, urls,
              ProcessUrls(urls, session, user_store, chroma, rag_id, <<>>))
    /\ UNCHANGED <<session, next_rag, stream, checkpointer, chroma_manager, session_state>>

\* process_document(file_path, rag_id, ..., embedding_model), called for the
\* session's user under a credential and a mode of the environment.
ProcessDocument(rag_id, src, embedding_model, api_key, dev_mode) ==
    LET r == process_document(session, user_store, chroma, rag_id, src,
                              embedding_model, api_key, dev_mode)
        who == get_logged_user_id(session)
        name == IF who.raised THEN None
                ELSE get_collection_name(user_store, who.value, rag_id)
    IN /\ Len(Held(chroma, name)) + ChunkCount(src) <= MaxStored
       /\ user_store' = r.store
       /\ chroma' = r.chroma
       /\ last' = [Outcome("process_document", 0, rag_id) EXCEPT
                     !.raised = r.raised, !.error = r.error,
                     !.user = who.value, !.name_before = name,
                     !.coll_before = Held(chroma, name),
                     !.chunks = r.chunks, !.collection = r.collection,
                     !.written = r.chroma # chroma,
                     !.embedding = get_embedding_function(embedding_model,
                                                          api_key, dev_mode),
                     !.input = [src |-> src, embedding_model |-> embedding_model,
                                api_key |-> api_key, dev_mode |-> dev_mode]]
       /\ UNCHANGED <<session, next_rag, stream, checkpointer, chroma_manager, session_state>>

(***************************************************************************)
(* The vector store manager's operations.                                  *)
(***************************************************************************)
\* The import of src.chroma_manager: `chroma_manager = ChromaDBManager()`.
Construct(connects) ==
    /\ ~chroma_manager.exists
    /\ LET r == ChromaDBManager(connects)
       IN /\ chroma_manager' = r.manager
          /\ last' = [Outcome("construct", 0, None) EXCEPT
                        !.raised = r.raised, !.error = r.error,
                        !.input = connects]
    /\ UNCHANGED <<session, user_store, chroma, next_rag, stream, checkpointer, session_state>>

\* chroma_manager.get_client().
GetClient(connects) ==
    /\ chroma_manager.exists
    /\ LET r == get_client(chroma_manager, connects)
       IN /\ chroma_manager' = r.manager
          /\ last' = [Outcome("get_client", 0, None) EXCEPT
                        !.raised = r.raised, !.error = r.error,
                        !.input = connects, !.output = r.client]
    /\ UNCHANGED <<session, user_store, chroma, next_rag, stream, checkpointer, session_state>>

\* chroma_manager.get_or_create_collection(collection_name).
GetOrCreateCollection(name, connects, fails) ==
    /\ chroma_manager.exists
    /\ LET r == get_or_create_collection(chroma_manager, chroma, name, connects, fails)
       IN /\ chroma_manager' = r.manager
          /\ chroma' = r.chroma
          /\ last' = [Outcome("get_or_create_collection", 0, None) EXCEPT
                        !.input = name, !.failed = fails, !.output = r.returned]
    /\ UNCHANGED <<session, user_store, next_rag, stream, checkpointer, session_state>>

\* chroma_manager.delete_collection(collection_name).
DeleteCollection(name, connects, fails) ==
    /\ chroma_manager.exists
    /\ LET r == delete_collection(chroma_manager, chroma, name, connects, fails)
       IN /\ chroma_manager' = r.manager
          /\ chroma' = r.chroma
          /\ last' = [Outcome("delete_collection", 0, None) EXCEPT
                        !.input = name, !.failed = fails, !.ok = r.returned]
    /\ UNCHANGED <<session, user_store, next_rag, stream, checkpointer, session_state>>

\* chroma_manager.list_collections() and health_check(), which lists the
\* collections and answers whether that succeeded.
ListCollections(op, connects, fails) ==
    /\ chroma_manager.exists
    /\ LET r == list_collections(chroma_manager, chroma, connects, fails)
       IN /\ chroma_manager' = r.manager
          /\ last' = [Outcome(op, 0, None) EXCEPT
                        !.failed = fails, !.ok = ~fails,
                        !.output = IF op = "health_check" THEN {} ELSE r.returned]
    /\ UNCHANGED <<session, user_store, chroma, next_rag, stream, checkpointer, session_state>>

(***************************************************************************)
(* Search and chat.                                                        *)
(***************************************************************************)
\* The outcome of a search_documents call and of the tool that wraps it.
SearchOutcome(op, status, request_rag, k, a) ==
    [Outcome(op, status, request_rag) EXCEPT
        !.searched = TRUE, !.raised = a.raised, !.results = a.results,
        !.user = a.user, !.searched_rag = a.rag_id, !.collection = a.collection,
        !.size = a.size, !.ran_similarity = a.ran_similarity, !.failed = a.failed,
        !.existed = a.collection \in DOMAIN chroma,
        !.tool = tool_search_documents(a),
        !.k = IF a.ran_similarity THEN k ELSE 0]

\* The n_results the tool may be called with.
KValues == {1, DefaultK}

\* A call of the retrieval tool outside a chat request.
SearchDocuments(k, fail) ==
    /\ LET a == search_documents(session, user_store, chroma, k, fail)
       IN /\ last' = SearchOutcome("search", 0, None, k, a)
          /\ user_store' = a.store
          /\ chroma' = a.chroma
    /\ UNCHANGED <<session, next_rag, stream, checkpointer, chroma_manager, session_state>>

\* POST /api/chat: chat_with_rag.  404 for a workspace get_rag does not
\* find; else the agents run on the query along `route`, the retrieval agent
\* may call its tool (`called`), the reply is assembled from the stream `st`
\* and the sources are extracted; 500 when the stream raises.
ChatWithRag(rag_id, query, called, k, fail, route, st) ==
    /\ Authenticated
    /\ IF ~HasRag(user_store, CurrentUser, rag_id)
       THEN /\ last' = [Outcome("chat", 404, rag_id) EXCEPT !.query = query]
            /\ UNCHANGED <<user_store, chroma, stream, checkpointer>>
       ELSE LET run == stream_agent_workflow(checkpointer, query, route)
                a == search_documents(session, user_store, chroma, k, fail)
                status == IF run.recursion_error THEN 500 ELSE 200
                src == chat_sources(user_store[CurrentUser].rags[rag_id].documents,
                                    query)
                base == IF called THEN SearchOutcome("chat", status, rag_id, k, a)
                        ELSE Outcome("chat", status, rag_id)
                ran == [base EXCEPT
                          !.query = query, !.thread = run.thread,
                          !.thread_used = run.thread_used,
                          !.history = run.history,
                          !.start_agent = run.start_agent, !.hops = run.hops,
                          !.route = route,
                          !.active_agent = run.active_agent,
                          !.recursion_error = run.recursion_error]
            IN /\ Len(checkpointer) < MaxThreads
               /\ IsRoute(run.start_agent, route)
               /\ stream' = st
               /\ checkpointer' = run.checkpointer
               /\ last' = IF run.recursion_error THEN ran
                          ELSE [ran EXCEPT
                                  !.response = ChatResponse(st),
                                  !.sources = src.sources,
                                  !.extracted_from = src.extracted_from,
                                  !.extraction_raised = src.extraction_raised]
               /\ IF called
                  THEN user_store' = a.store /\ chroma' = a.chroma
                  ELSE UNCHANGED <<user_store, chroma>>
    /\ UNCHANGED <<session, next_rag, chroma_manager, session_state>>

\* initialize_chat_state(), at each run of the chat page.
InitializeChatState ==
    /\ session_state' = initialize_chat_state(session_state)
    /\ last' = Outcome("initialize", 0, None)
    /\ UNCHANGED <<session, user_store, chroma, next_rag, stream, checkpointer, chroma_manager>>

\* add_user_message(message).  The page calls it after
\* initialize_chat_state; the history is kept to MaxMessages messages.
AddUserMessage(message) ==
    /\ "chat_messages" \in session_state.keys
    /\ Len(session_state.chat_messages) < MaxMessages
    /\ session_state' = add_user_message(session_state, message)
    /\ last' = Outcome("user", 0, None)
    /\ UNCHANGED <<session, user_store, chroma, next_rag, stream, checkpointer, chroma_manager>>

\* add_assistant_response(stream_data): the chat page appends the assistant's
\* message to the history.
AddAssistantResponse(st) ==
    /\ "chat_messages" \in session_state.keys
    /\ Len(session_state.chat_messages) < MaxMessages
    /\ stream' = st
    /\ session_state' = add_assistant_response(session_state, st)
    /\ last' = [Outcome("assistant", 0, None) EXCEPT !.response = AssistantContent(st)]
    /\ UNCHANGED <<session, user_store, chroma, next_rag, checkpointer, chroma_manager>>

(***************************************************************************)
(* Functions applied on their own: the call names the function and holds   *)
(* its arguments, the step applies the function to them.                   *)
(***************************************************************************)
Call(fn, args) == [NoOutcome EXCEPT !.op = "call", !.tool = fn, !.input = args]

Called(fn) == last.op = "call" /\ last.tool = fn

\* The response texts: up to MaxTokens tokens.
Texts == SeqsUpTo(Tokens, MaxTokens)

\* extract_sources_from_response(response).
ExtractSourcesFromResponse ==
    /\ Called("extract_sources_from_response")
    /\ last' = [Outcome("extract_sources_from_response", 0, None) EXCEPT
                  !.input = last.input,
                  !.output = extract_sources_from_response(last.input)]
    /\ UNCHANGED <<session, user_store, chroma, next_rag, stream, checkpointer, chroma_manager, session_state>>

\* extract_rag_sources(response).
ExtractRagSources ==
    /\ Called("extract_rag_sources")
    /\ last' = [Outcome("extract_rag_sources", 0, None) EXCEPT
                  !.input = last.input, !.output = extract_rag_sources(last.input)]
    /\ UNCHANGED <<session, user_store, chroma, next_rag, stream, checkpointer, chroma_manager, session_state>>

\* extract_text_from_url(url), with what the network does.
ExtractTextFromUrl ==
    /\ Called("extract_text_from_url")
    /\ LET r == extract_text_from_url(last.input.url, last.input.net)
       IN last' = [Outcome("extract_text_from_url", 0, None) EXCEPT
                     !.input = last.input.url, !.output = r.records,
                     !.requests = r.requests]
    /\ UNCHANGED <<session, user_store, chroma, next_rag, stream, checkpointer, chroma_manager, session_state>>

\* The paging of the text extract_text_from_url got of a page.
VirtualPages ==
    /\ Called("virtual_pages")
    /\ last' = [Outcome("virtual_pages", 0, None) EXCEPT
                  !.input = last.input, !.output = virtual_pages(last.input)]
    /\ UNCHANGED <<session, user_store, chroma, next_rag, stream, checkpointer, chroma_manager, session_state>>

\* The page records split_text may be given: of a page or of an error.
Records == [content : {TextOfLen(n) : n \in 1..MaxLen}, page : {1, 2},
            source : {"a.pdf"}, error : BOOLEAN]

\* split_text(documents, split_method, chunk_size, chunk_overlap).
SplitText ==
    /\ Called("split_text")
    /\ LET a == last.input
       IN last' = [Outcome("split_text", 0, None) EXCEPT
                     !.input = a.documents,
                     !.output = split_text(a.documents, a.split_method,
                                           a.config[1], a.config[2])]
    /\ UNCHANGED <<session, user_store, chroma, next_rag, stream, checkpointer, chroma_manager, session_state>>

\* process_document on a PDF file, up to the chunk records it returns:
\* extraction, splitting, and the numbering of the chunks.
ProcessPdf ==
    /\ Called("process_pdf")
    /\ LET a == last.input
           documents == extract_text_from_pdf(a.pages, "a.pdf", a.fitz_read, a.pypdf_read)
           langchain_docs == split_text(documents, a.split_method,
                                        a.config[1], a.config[2])
       IN last' = [Outcome("process_pdf", 0, None) EXCEPT
                     !.input = documents, !.split = langchain_docs,
                     !.output = chunk_records(langchain_docs)]
    /\ UNCHANGED <<session, user_store, chroma, next_rag, stream, checkpointer, chroma_manager, session_state>>

\* The calls: each function on every input of the bounds.
InitFunctions ==
    /\ session = EmptySession
    /\ user_store = [u \in Users |-> AbsentUser]
    /\ chroma = EmptyMap
    /\ next_rag = 1
    /\ stream = <<>>
    /\ checkpointer = <<>>
    /\ session_state = NoChatState
    /\ chroma_manager = Connected
    /\ \/ \E text \in Texts : last = Call("extract_sources_from_response", text)
       \/ \E text \in Texts : last = Call("extract_rag_sources", text)
       \/ \E url \in Urls, net \in {"returns", "raises"} :
             last = Call("extract_text_from_url", [url |-> url, net |-> net])
       \/ \E text \in WebTexts : last = Call("virtual_pages", text)
       \/ \E documents \in SeqsUpTo(Records, MaxPages) \ {<<>>},
             m \in SplitMethods, c \in SplitConfigs :
             last = Call("split_text",
                         [documents |-> documents, split_method |-> m, config |-> c])
       \/ \E pages \in Files, m \in SplitMethods, c \in SplitConfigs :
             \E f \in 0..Len(pages), g \in 0..Len(pages) :
                 /\ f = Len(pages) => g = Len(pages)
                 /\ last = Call("process_pdf",
                                [pages |-> pages, fitz_read |-> f, pypdf_read |-> g,
                                 split_method |-> m, config |-> c])

(***************************************************************************)
(* Specifications.                                                         *)
(***************************************************************************)
\* Workspaces, ingestion and search.
Next ==
    \/ \E u \in Users : Login(u)
    \/ Logout
    \/ \E r \in RagIds : SelectRag(r)
    \/ \E n \in Names : CreateRag(n, "d1")
    \/ \E r \in RagIds, n \in Names : UpdateRag(r, "name", n)
    \/ \E r \in RagIds, d \in Descriptions : UpdateRag(r, "description", d)
    \/ \E r \in RagIds : DeleteRag(r)
    \/ \E r \in RagIds, f \in UploadRequests : UploadDocuments(r, f, NoRaise(f))
    \/ \E r \in RagIds, f \in UploadRequests : AddUrls(r, f)
    \/ \E k \in KValues, fail \in BOOLEAN : SearchDocuments(k, fail)

Spec == Init /\ [][Next]_vars

\* The assembly of the reply, over every stream of at most MaxEvents events.
NextChat ==
    \/ Login("u1")
    \/ CreateRag("docs", "d1")
    \/ \E r \in RagIds, st \in Streams :
          ChatWithRag(r, "q1", FALSE, DefaultK, FALSE, <<>>, st)

SpecChat == Init /\ [][NextChat]_vars

\* One user's session: creation, upload and search of workspaces.
NextSearch ==
    \/ Login("u1")
    \/ Logout
    \/ \E r \in RagIds : SelectRag(r)
    \/ \E n \in Names : CreateRag(n, "d1")
    \/ \E r \in RagIds, f \in UploadRequests : UploadDocuments(r, f, NoRaise(f))
    \/ \E k \in KValues, fail \in BOOLEAN : SearchDocuments(k, fail)

SpecSearch == Init /\ [][NextSearch]_vars

\* The chats of one user: the runs of the agents, their threads and the
\* searches their tool makes; the chats consume an empty stream.
NextAgents ==
    \/ Login("u1")
    \/ CreateRag("docs", "d1")
    \/ \E r \in RagIds : SelectRag(r)
    \/ \E r \in RagIds, q \in Queries, called \in BOOLEAN,
          route \in SeqsUpTo(Agents, RecursionLimit) :
          ChatWithRag(r, q, called, DefaultK, FALSE, route, <<>>)

SpecAgents == Init /\ [][NextAgents]_vars

\* process_document called on the workspaces of one user, named or with an
\* empty display name, under every credential and mode.
NextIngest ==
    \/ Login("u1")
    \/ \E n \in Names \cup {""} : CreateRag(n, "d1")
    \/ \E r \in RagIds, src \in Sources, m \in EmbeddingModels,
          key \in ApiKeys, dev \in BOOLEAN : ProcessDocument(r, src, m, key, dev)

SpecIngest == Init /\ [][NextIngest]_vars

\* The uploads of one user, with files of an unsupported type and embedding
\* requests that fail.
NextUpload ==
    \/ Login("u1")
    \/ Logout
    \/ \E r \in RagIds : SelectRag(r)
    \/ CreateRag("docs", "d1")
    \/ \E r \in RagIds, f \in MixedUploads :
          \E raises \in [1..Len(f) -> BOOLEAN] : UploadDocuments(r, f, raises)

SpecUpload == Init /\ [][NextUpload]_vars

\* The workspaces of the users' store: creation, update, ingestion (which
\* hands the chunks to add_document_to_rag) and deletion.
NextStore ==
    \/ Login("u1")
    \/ CreateRag("docs", "d1")
    \/ \E r \in RagIds : UpdateRag(r, "name", "notes")
    \/ \E r \in RagIds : DeleteRag(r)
    \/ \E r \in RagIds : UploadDocuments(r, <<"b.pdf">>, <<FALSE>>)

SpecStore == Init /\ [][NextStore]_vars

\* The chat page: the history of the user's messages and of the
\* assistant's, over the streams of at most one event.
NextChatPage ==
    \/ InitializeChatState
    \/ \E q \in Queries : AddUserMessage(q)
    \/ \E st \in SeqsUpTo(Events, 1) : AddAssistantResponse(st)

SpecChatPage == Init /\ [][NextChatPage]_vars

\* The users' logins and logouts and the requests of their clients.
NextAuth ==
    \/ \E u \in Users : Login(u)
    \/ Logout
    \/ \E n \in Names : CreateRag(n, "d1")
    \/ \E token \in Users \cup {None} : GetCurrentUserInfo(token)
    \/ \E route \in ProtectedRoutes, token \in Users \cup {None} :
          Rejected(route, token)

SpecAuth == Init /\ [][NextAuth]_vars

\* The manager from the import of its module on, with a server that may be
\* unreachable at any call.
InitManager ==
    /\ session = EmptySession
    /\ user_store = [u \in Users |-> AbsentUser]
    /\ chroma = EmptyMap
    /\ next_rag = 1
    /\ last = NoOutcome
    /\ stream = <<>>
    /\ checkpointer = <<>>
    /\ session_state = NoChatState
    /\ chroma_manager = NoManager

NextManager ==
    \/ \E connects \in BOOLEAN : Construct(connects)
    \/ \E connects \in BOOLEAN : GetClient(connects)
    \/ \E name \in CollectionNames, connects \in BOOLEAN, fails \in BOOLEAN :
          GetOrCreateCollection(name, connects, fails)
    \/ \E name \in CollectionNames, connects \in BOOLEAN, fails \in BOOLEAN :
          DeleteCollection(name, connects, fails)
    \/ \E op \in {"list_collections", "health_check"}, connects \in BOOLEAN,
          fails \in BOOLEAN : ListCollections(op, connects, fails)

SpecManager == InitManager /\ [][NextManager]_vars

\* Successive chats of one user, each answered after at most two handoffs.
NextThreads ==
    \/ Login("u1")
    \/ CreateRag("docs", "d1")
    \/ \E r \in RagIds, q \in Queries, route \in SeqsUpTo(Agents, 2) :
          ChatWithRag(r, q, FALSE, DefaultK, FALSE, route, <<>>)

SpecThreads == Init /\ [][NextThreads]_vars

\* The functions that take no part of the state.
NextFunctions ==
    \/ ExtractSourcesFromResponse
    \/ ExtractRagSources
    \/ ExtractTextFromUrl
    \/ VirtualPages
    \/ SplitText
    \/ ProcessPdf

SpecFunctions == InitFunctions /\ [][NextFunctions]_vars

(***************************************************************************)
(* Notions the claims use.                                                 *)
(***************************************************************************)
\* The workspaces that exist: (user, workspace id).
LiveRags == {p \in Users \X RagIds : HasRag(user_store, p[1], p[2])}

\* A workspace that was created and is in no user's store any more.
Deleted(rag_id) ==
    /\ \E i \in 1..(next_rag - 1) : rag_id = RagId(i)
    /\ \A u \in Users : ~HasRag(user_store, u, rag_id)

\* The collections of the vector store that hold a chunk a workspace ingested.
CollectionsWrittenBy(rag_id) ==
    {c \in DOMAIN chroma : \E i \in 1..Len(chroma[c]) : chroma[c][i].by = rag_id}

\* The outcome at hand is that of an ingestion request that replied 200.
Ingested == last.op \in {"upload", "urls"} /\ last.status = 200

\* The document list of the workspace the last request named.
DocumentsOfLast == user_store[CurrentUser].rags[last.rag_id].documents

\* The stream carried an event with a non-empty message list.
CarriedMessages == \E i \in 1..Len(stream) : HasMessages(stream[i])

\* The last message of the last event, in stream order, whose message list
\* is non-empty.
ExpectedFinal ==
    LET last_i == CHOOSE i \in 1..Len(stream) :
                     /\ HasMessages(stream[i])
                     /\ \A j \in (i + 1)..Len(stream) : ~HasMessages(stream[j])
        msgs == stream[last_i].update.messages
    IN msgs[Len(msgs)]

(***************************************************************************)
(* The claims.                                                             *)
(***************************************************************************)
\* C1: once delete_rag has succeeded for a workspace, no collection its
\* ingestions wrote to exists in the vector store, and a search for it
\* returns the single "no collection" result.
C1_DeleteRemovesCollection ==
    /\ \A r \in RagIds : Deleted(r) => CollectionsWrittenBy(r) = {}
    /\ (last.searched /\ ~last.raised /\ Deleted(last.searched_rag))
          => last.results = <<NoCollectionResult>>

\* C2: two distinct workspaces that exist at the same time resolve to
\* different collection names, and a search of a workspace returns no chunk
\* that another workspace ingested.
C2_CollectionsNotShared ==
    /\ \A p \in LiveRags, q \in LiveRags :
          p # q => get_collection_name(user_store, p[1], p[2])
                     # get_collection_name(user_store, q[1], q[2])
    /\ last.searched =>
          \A i \in 1..Len(last.results) :
              last.results[i].kind = "chunk" => last.results[i].by = last.searched_rag

\* C3: as long as a workspace exists, every chunk it ingested lies in the
\* collection that is resolved for it now, so that a search after a rename
\* finds the chunks ingested before it.
C3_CollectionNameStable ==
    \A p \in LiveRags :
        CollectionsWrittenBy(p[2]) \subseteq {get_collection_name(user_store, p[1], p[2])}

\* C4: the search a chat request for workspace W makes resolves W, the
\* workspace id passed with the request, and W's collection.
C4_ChatSearchesRequestedRag ==
    (last.op = "chat" /\ last.searched) =>
        /\ last.searched_rag = last.rag_id
        /\ last.collection = get_collection_name(user_store, last.user, last.rag_id)

\* C5: a completed chat returns a non-empty response, the fallback string
\* only if the stream carried no event with a non-empty message list, and
\* the message the chat page keeps is never "" or "None".
C5_ResponseNeverEmpty ==
    /\ (last.op = "chat" /\ last.status = 200) =>
          /\ last.response # ""
          /\ last.response = Fallback => ~CarriedMessages
    /\ last.op = "assistant" => last.response \notin {"", "None"}

\* C6: when the stream carried an event with a non-empty message list, the
\* final assistant message is the last message of the last such event.
C6_FinalIsLastMessage ==
    (last.op \in {"chat", "assistant"} /\ last.status \in {0, 200} /\ CarriedMessages)
        => last.response = ExpectedFinal

\* C7: after an upload that reports N chunks added, the workspace's document
\* list is a list holding exactly those N chunk records, in ingestion order,
\* after what it held.
C7_UploadStoresChunks ==
    Ingested =>
        /\ last.reported = Len(last.chunks)
        /\ DocumentsOfLast.t = "list"
        /\ DocumentsOfLast.items = last.docs_before.items \o last.chunks

\* C8: a request that ingests the same source twice leaves twice the chunks
\* of one ingestion, after what was there, in the vector collection and in
\* the workspace's document list.
C8_ReingestDoubles ==
    \A src \in Sources :
        (Ingested /\ last.chunks = ChunksOf(src) \o ChunksOf(src)) =>
            /\ Held(chroma, last.collection)
                 = last.coll_before \o Stored(last.chunks, last.rag_id)
            /\ Len(Held(chroma, last.collection))
                 = Len(last.coll_before) + 2 * ChunkCount(src)
            /\ DocumentsOfLast.t = "list"
            /\ Len(DocumentsOfLast.items)
                 = Len(last.docs_before.items) + 2 * ChunkCount(src)

\* The vector-store half of C8, which the code keeps: an ingestion request
\* appends its chunks to the collection and removes none.
IngestionAppendsToCollection ==
    Ingested =>
        Held(chroma, last.collection) = last.coll_before \o Stored(last.chunks, last.rag_id)

\* C9: a search with no resolvable collection does not raise and returns
\* exactly one synthetic result, the "no collection" one.
C9_UnresolvedSearchNeverRaises ==
    (last.searched /\ Falsy(last.collection)) =>
        /\ ~last.raised
        /\ last.results = <<NoCollectionResult>>

\* C10: a search of a collection that existed and holds no chunk returns
\* exactly one result, informational with error = false, and does not run
\* the similarity search.
C10_EmptyCollectionIsInformational ==
    (/\ last.searched
     /\ ~last.raised
     /\ ~Falsy(last.collection)
     /\ last.existed
     /\ Held(chroma, last.collection) = <<>>)
        => /\ Len(last.results) = 1
           /\ last.results[1].source = "information"
           /\ last.results[1].error = "False"
           /\ ~last.ran_similarity

\* C10's case happens: a search found its collection existing and empty.
C10_Witness ==
    /\ last.searched
    /\ ~last.raised
    /\ ~Falsy(last.collection)
    /\ last.existed
    /\ last.collection \in DOMAIN chroma
    /\ chroma[last.collection] = <<>>
    /\ last.results = <<EmptyResult>>

C11_WitnessSucceeds ==
    /\ last.searched
    /\ last.ran_similarity
    /\ ~last.failed
    /\ Len(last.results) = last.k
    /\ Len(Held(chroma, last.collection)) > last.k

\* The citations of a text in the order they are written, of both forms.
CitationsInOrder(text) ==
    LET cited == {i \in 1..Len(text) : /\ text[i].form \in {"bracket", "paren"}
                                       /\ text[i].doc.ext \in Extensions}
        Rank(i) == Cardinality({j \in cited : j <= i})
    IN [n \in 1..Cardinality(cited) |->
           Citation(text[CHOOSE i \in cited : Rank(i) = n])]

\* C12: for every response text both citation extractors return one
\* "name.ext, page N" entry per citation of the bracket or of the paren
\* form whose extension is pdf, docx, doc or txt, in the order the
\* citations are written.
C12_CitationsInTextOrder ==
    last.op \in {"extract_sources_from_response", "extract_rag_sources"}
        => last.output = CitationsInOrder(last.input)

\* What the extractors do keep: extract_rag_sources returns the citations of
\* the bracket form in order, and extract_sources_from_response returns one
\* entry per citation of either form.
ExtractorsKeepBracketOrder ==
    /\ last.op = "extract_rag_sources" => last.output = findall("bracket", last.input)
    /\ last.op = "extract_sources_from_response" =>
          /\ Len(last.output) = Len(CitationsInOrder(last.input))
          /\ \A c \in {CitationsInOrder(last.input)[i] :
                         i \in 1..Len(CitationsInOrder(last.input))} :
                \E i \in 1..Len(last.output) : last.output[i] = c

\* The chunks of a split that come from the record at a position.
ChunksOfRecord(chunks, record) == {i \in 1..Len(chunks) : chunks[i].record = record}

\* C15: for every error record given to split_text, with any chunk size
\* and overlap and either method, the output holds exactly one chunk for it,
\* with the record's whole content and its source and page.
C15_ErrorRecordsPassUnsplit ==
    last.op = "split_text" =>
        \A r \in 1..Len(last.input) :
            last.input[r].error =>
                /\ Cardinality(ChunksOfRecord(last.output, r)) = 1
                /\ \A i \in ChunksOfRecord(last.output, r) :
                      /\ last.output[i].content = last.input[r].content
                      /\ last.output[i].source = last.input[r].source
                      /\ last.output[i].page = last.input[r].page

\* What split_text does keep of an error record: every chunk made of it
\* carries its source, its page and its error mark, and a record that fits
\* the chunk size gives one chunk with the whole content.
ErrorRecordsKeepMetadata ==
    last.op = "split_text" =>
        \A i \in 1..Len(last.output) :
            LET doc == last.input[last.output[i].record]
            IN /\ last.output[i].source = doc.source
               /\ last.output[i].page = doc.page
               /\ last.output[i].error = doc.error
               /\ Len(doc.content) = 1 => last.output[i].content = doc.content

\* C16: within one ingestion call the i-th chunk returned (0-based) has the
\* chunk_id "{source}_{i}", the chunk_ids are pairwise distinct, and the
\* chunks of pages come in the order of the source document: pages
\* ascending, the chunks of one page in the order of its text.
C16_ChunkIdsAndDocumentOrder ==
    last.op = "process_pdf" =>
        /\ \A i \in 1..Len(last.output) :
              last.output[i].chunk_id = last.output[i].source \o "_" \o ToString(i - 1)
        /\ \A i \in 1..Len(last.output), j \in 1..Len(last.output) :
              i # j => last.output[i].chunk_id # last.output[j].chunk_id
        /\ \A i \in 1..Len(last.output), j \in 1..Len(last.output) :
              (i < j /\ last.output[i].page > 0 /\ last.output[j].page > 0) =>
                  \/ last.output[i].page < last.output[j].page
                  \/ /\ last.output[i].page = last.output[j].page
                     /\ Head(last.output[i].content) < Head(last.output[j].content)

\* The half of C16 that the code keeps: the numbering of the chunk_ids, and
\* the order of the extracted records, which splitting preserves; the chunks
\* are in document order whenever the extracted records are.
ChunkIdsNumberTheOutput ==
    last.op = "process_pdf" =>
        /\ Len(last.output) = Len(last.split)
        /\ \A i \in 1..Len(last.output) :
              /\ last.output[i].chunk_id = last.output[i].source \o "_" \o ToString(i - 1)
              /\ last.output[i].content = last.split[i].content
        /\ \A i \in 1..Len(last.output), j \in 1..Len(last.output) :
              i # j => last.output[i].chunk_id # last.output[j].chunk_id
        /\ \A i \in 1..Len(last.split), j \in 1..Len(last.split) :
              i < j => last.split[i].record <= last.split[j].record
        /\ (\A i \in 1..Len(last.input), j \in 1..Len(last.input) :
                i < j => last.input[i].page < last.input[j].page)
           => \A i \in 1..Len(last.output), j \in 1..Len(last.output) :
                 i < j =>
                    \/ last.output[i].page < last.output[j].page
                    \/ /\ last.output[i].page = last.output[j].page
                       /\ Head(last.output[i].content) < Head(last.output[j].content)

\* C19: for every input with no scheme or no host, the web extractor
\* returns exactly one record, with the error flag set and page 0, and makes
\* no network request.
C19_MalformedUrlMakesNoRequest ==
    (/\ last.op = "extract_text_from_url"
     /\ \/ urlparse(last.input).scheme = ""
        \/ urlparse(last.input).netloc = "") =>
        /\ Len(last.output) = 1
        /\ last.output[1].error
        /\ last.output[1].page = 0
        /\ last.requests = 0

\* C19's case happens: the extractor was given a scheme without a host.
C19_Witness ==
    /\ last.op = "extract_text_from_url"
    /\ urlparse(last.input).scheme # ""
    /\ urlparse(last.input).netloc = ""
    /\ Len(last.output) = 1
    /\ last.requests = 0

\* C13: the sources of a chat reply are the citations extracted from the
\* reply's response text: the citation extractor is applied to the response,
\* the call succeeds and its result is the reply's sources.
C13_SourcesAreCitationsOfResponse ==
    (last.op = "chat" /\ last.status = 200) =>
        /\ last.extracted_from = <<"response">>
        /\ ~last.extraction_raised

\* What chat_with_rag does instead: the extractor is called with the
\* workspace's documents and the query, two arguments for its one parameter,
\* the TypeError is caught and the sources of every reply are empty; the
\* response is the fallback string whatever the stream carried.
ChatSourcesAlwaysEmpty ==
    (last.op = "chat" /\ last.status = 200) =>
        /\ last.extracted_from = <<"documents", "request.message">>
        /\ last.extraction_raised
        /\ last.sources = <<>>
        /\ last.response = Fallback

\* C17: every chat call that runs the agents ends with an answer: the
\* handoffs of the call stay under a hop limit, and the call that reaches
\* the limit replies 200 with a response, it does not fail.
C17_HandoffLoopEndsWithAnAnswer ==
    (last.op = "chat" /\ last.status # 404) =>
        /\ ~last.recursion_error
        /\ last.status = 200
        /\ last.response # None

\* The half of C17 that holds: no call makes more than RecursionLimit
\* handoffs, so every call ends; the call that makes that many ends as an
\* error 500 without a response, every other call replies 200.
HandoffsAreBoundedByRecursionLimit ==
    (last.op = "chat" /\ last.status # 404) =>
        /\ last.hops <= RecursionLimit
        /\ last.hops = RecursionLimit <=> last.recursion_error
        /\ last.recursion_error <=> (last.status = 500 /\ last.response = None)
        /\ ~last.recursion_error <=> last.status = 200

\* C18: a chat call runs under a thread id no earlier call had, the message
\* history it starts with holds its own query only, and its active agent
\* starts at the receptionist, whatever the earlier calls left.
C18_ChatCallsShareNoState ==
    (last.op = "chat" /\ last.status # 404) =>
        /\ ~last.thread_used
        /\ last.history = <<last.query>>
        /\ last.start_agent = "receptionist"

\* C18's case happens: a second call, after a first call that was answered
\* and ended at another agent than the receptionist.
C18_Witness ==
    /\ last.op = "chat"
    /\ last.thread = 2
    /\ Len(checkpointer) = 2
    /\ checkpointer[1].active_agent # "receptionist"
    /\ Len(checkpointer[1].messages) = 2
    /\ last.query # checkpointer[1].messages[1]

\* C14: process_document for a workspace for which no collection name is
\* resolved registers a name for it, stores the chunks in that collection
\* and returns them; the lookup then gives the registered name.
C14_IngestRegistersCollection ==
    (/\ last.op = "process_document"
     /\ last.user # None
     /\ ~last.embedding.raised
     /\ Falsy(last.name_before)) =>
        /\ ~last.raised
        /\ last.chunks = ChunksOf(last.input.src)
        /\ ~Falsy(get_collection_name(user_store, last.user, last.rag_id))
        /\ last.collection = get_collection_name(user_store, last.user, last.rag_id)
        /\ Held(chroma, last.collection) = Stored(last.chunks, last.rag_id)

\* What the code does in the case of C14: register_collection is called
\* with one argument, the TypeError leaves process_document, no name is
\* registered and nothing is stored.
UnnamedWorkspaceIsNotIngested ==
    (/\ last.op = "process_document"
     /\ last.user # None
     /\ ~last.embedding.raised
     /\ Falsy(last.name_before)) =>
        /\ last.raised
        /\ last.error = "TypeError"
        /\ last.chunks = <<>>
        /\ ~last.written
        /\ Falsy(get_collection_name(user_store, last.user, last.rag_id))

\* C20: with the model key "openai" and no credential, process_document
\* outside DEV mode raises before the vector store is written, and the
\* error is the configuration error (ValueError) whenever the session has a
\* user; in DEV mode the placeholder key is taken and no configuration error
\* is raised.  Any other model key gives the local model, without a key and
\* without a configuration error, whatever the credential.
C20_MissingCredentialIsConfigurationError ==
    last.op = "process_document" =>
        /\ (/\ last.input.embedding_model = "openai"
            /\ Falsy(last.input.api_key)
            /\ ~last.input.dev_mode) =>
               /\ last.raised
               /\ last.chunks = <<>>
               /\ ~last.written
               /\ last.user # None => last.error = "ValueError"
        /\ (/\ last.input.embedding_model = "openai"
            /\ Falsy(last.input.api_key)
            /\ last.input.dev_mode) =>
               /\ ~last.embedding.raised
               /\ last.embedding.key = PlaceholderKey
               /\ last.error # "ValueError"
        /\ last.input.embedding_model # "openai" =>
               /\ ~last.embedding.raised
               /\ last.embedding.embeddings = "HuggingFaceEmbeddings"
               /\ last.embedding.key = None
               /\ last.error # "ValueError"

\* C20's case happens: "openai" without a credential outside DEV mode, for a
\* user's workspace whose collection is resolved and already holds chunks.
C20_Witness ==
    /\ last.op = "process_document"
    /\ last.input.embedding_model = "openai"
    /\ Falsy(last.input.api_key)
    /\ ~last.input.dev_mode
    /\ last.user # None
    /\ ~Falsy(last.name_before)
    /\ last.coll_before # <<>>
    /\ last.error = "ValueError"

\* The DEV-mode case of C20 happens too: the chunks are stored under the
\* placeholder key.
C20_WitnessDevMode ==
    /\ last.op = "process_document"
    /\ last.input.embedding_model = "openai"
    /\ Falsy(last.input.api_key)
    /\ last.input.dev_mode
    /\ ~last.raised
    /\ last.written

\* C21: a construction of the manager that cannot connect raises
\* ConnectionError and leaves no instance with a client; every get_client
\* call returns a client or raises ConnectionError, it never returns None;
\* and an instance never holds an absent client.
C21_NoAbsentClient ==
    /\ (last.op = "construct" /\ last.input = FALSE) =>
          /\ last.raised
          /\ last.error = "ConnectionError"
          /\ chroma_manager.client = None
          /\ ~chroma_manager.exists
    /\ last.op = "get_client" =>
          \/ last.raised /\ last.error = "ConnectionError"
          \/ ~last.raised /\ last.output = "HttpClient"
    /\ chroma_manager.exists => chroma_manager.client # None

\* C21's case happens: a construction failed for want of a connection, a
\* later one succeeded, and get_client was called while the server was
\* unreachable.
C21_Witness ==
    /\ last.op = "get_client"
    /\ last.input = FALSE
    /\ chroma_manager.exists

\* The failing construction itself is reached.
C21_WitnessConstructionFails ==
    /\ last.op = "construct"
    /\ last.input = FALSE
    /\ last.raised

\* C22: a request is executed for the user whose token it bears: the user
\* that GET /api/auth/me answers for is the user the token was issued to.
C22_RequestActsForTokenUser ==
    (last.op = "me" /\ last.status = 200) => last.user = last.token

\* What the code keeps: a request that is let in acts for the user of the
\* one session file, whatever token it bears.
RequestActsForSessionUser ==
    (last.op = "me" /\ last.status = 200) =>
        /\ last.token # None
        /\ last.user = session.user_id

\* C27: with no user logged in (after a logout, until the next login) every
\* protected request is rejected with 401, none with an internal error.
C27_RejectedAsUnauthenticated ==
    /\ (last.op = "logout" /\ last.status = 200) => ~check_user_logged(session)
    /\ (last.op \in ProtectedRoutes \cup {"me"} /\ ~last.logged) =>
          last.status = 401

\* What the code keeps: after a logout is_authenticated() is false; without
\* a user in the session a request that bears no token is answered 401, a
\* request that bears one is answered 500.
UnauthenticatedIs401Or500 ==
    /\ (last.op = "logout" /\ last.status = 200) => ~check_user_logged(session)
    /\ (last.op \in ProtectedRoutes \cup {"me"} /\ ~last.logged) =>
          /\ last.token = None => last.status = 401
          /\ last.token # None => last.status = 500

\* C23: an upload in which the processing of a file raises records no chunk
\* in the workspace's document list, and the chunks of the files processed
\* before it stay in the vector collection.
C23_FailedUploadRecordsNothing ==
    (last.op = "upload" /\ last.status = 500) =>
        /\ user_store[CurrentUser].rags[last.rag_id].documents = last.docs_before
        /\ Held(chroma, last.collection) =
              last.coll_before \o Stored(last.chunks, last.rag_id)

\* A failed upload after a first file was processed.
C23_Witness ==
    /\ last.op = "upload" /\ last.status = 500
    /\ last.chunks # <<>>
    /\ Len(Held(chroma, last.collection)) > Len(last.coll_before)

C29_WitnessSkipped ==
    /\ last.op = "upload" /\ last.status = 200
    /\ Len(last.input) = 2 /\ last.tmp_created = 1

\* C24: a chat starts in a new thread at the receptionist; the active agent
\* changes by handoffs only, each from the agent that is active to one of
\* the two other agents, never to itself; the agent that answers is the one
\* last handed to.
C24_HandoffsGoToAnotherAgent ==
    (last.op = "chat" /\ last.status = 200) =>
        LET from(i) == IF i = 1 THEN last.start_agent ELSE last.route[i - 1]
        IN /\ last.start_agent = DefaultActiveAgent
           /\ \A i \in 1..Len(last.route) :
                 /\ last.route[i] \in Agents
                 /\ last.route[i] # from(i)
           /\ last.active_agent = from(Len(last.route) + 1)

\* A chat answered by the calculator after two handoffs.
C24_Witness ==
    /\ last.op = "chat" /\ last.status = 200
    /\ last.route = <<"rag", "calculator">>
    /\ last.active_agent = "calculator"

\* C25: the extraction of a PDF file gives records of pages numbered from 1,
\* strictly increasing (so no page twice) and none of them an error record,
\* or, when both readers fail, the one error record of page 0 and no other;
\* also when the first reader fails after it read some pages.
C25_PagesOnceOrOneErrorRecord ==
    last.op = "process_pdf" =>
        \/ /\ \A i \in 1..Len(last.input) :
                 (~last.input[i].error /\ last.input[i].page >= 1)
           /\ \A i \in 1..Len(last.input), j \in 1..Len(last.input) :
                 i < j => last.input[i].page < last.input[j].page
        \/ /\ Len(last.input) = 1
            /\ last.input[1].error /\ last.input[1].page = 0

\* What the code keeps: the claim's shape when the first reader reads the
\* whole file, and when it fails before its first page and the second
\* reader reads the whole file or fails before its first page.
ExtractionWithoutPartialReads ==
    \A pages \in Files :
        LET n == Len(pages)
            increasing(r) == \A i \in 1..Len(r), j \in 1..Len(r) :
                                 i < j => r[i].page < r[j].page
            whole == extract_text_from_pdf(pages, "a.pdf", n, 0)
            fallback == extract_text_from_pdf(pages, "a.pdf", 0, n)
            both_fail == extract_text_from_pdf(pages, "a.pdf", 0, 0)
        IN /\ increasing(whole) /\ (\A i \in 1..Len(whole) : ~whole[i].error)
           /\ increasing(fallback) /\ (\A i \in 1..Len(fallback) : ~fallback[i].error)
           /\ Len(both_fail) = 1 /\ both_fail[1].error /\ both_fail[1].page = 0

\* C26: web content longer than chars_per_page, made of paragraphs each
\* shorter than chars_per_page, gives more than one page record, numbered
\* 1..n, cut at the paragraph boundaries only, none much longer than
\* chars_per_page (a page holds at most what fits and its separators).
C26_LongContentIsPaged ==
    (/\ last.op = "virtual_pages"
     /\ Len(clean_lines(last.input)) > chars_per_page
     /\ \A p \in DOMAIN split(last.input, <<LF, LF>>, <<>>) :
           Len(split(last.input, <<LF, LF>>, <<>>)[p]) < chars_per_page) =>
        /\ Len(last.output) > 1
        /\ \A i \in 1..Len(last.output) :
              /\ last.output[i].page = i
              /\ Len(last.output[i].content) <= 2 * chars_per_page

\* What the code keeps: the cleaning of the lines leaves no empty line, so
\* the content holds no "\n\n" and is one paragraph: every content gives
\* exactly one record, of page 1, that holds the whole cleaned content.
WebContentIsOnePage ==
    last.op = "virtual_pages" =>
        /\ Len(last.output) = 1
        /\ last.output[1].page = 1
        /\ LET content == clean_lines(last.input)
           IN last.output[1].content =
                IF Len(content) <= chars_per_page THEN content
                ELSE content \o <<LF, LF>>

\* C28: in DEV mode, after any sequence of create, update, add_document and
\* delete, the "rags" and the "collections" maps of every user hold the
\* same workspace ids, and a deleted workspace is in neither.
C28_RagsAndCollectionsAgree ==
    /\ \A u \in Users :
          DOMAIN user_store[u].rags = DOMAIN user_store[u].collections
    /\ (last.op = "delete" /\ last.ok) =>
          /\ last.rag_id \notin DOMAIN user_store[CurrentUser].rags
          /\ last.rag_id \notin DOMAIN user_store[CurrentUser].collections

\* The deletion of one of the two workspaces a user created, after an
\* ingestion; the other workspace stays.
C28_Witness ==
    /\ last.op = "delete" /\ last.ok
    /\ next_rag = 3
    /\ Cardinality(DOMAIN user_store[CurrentUser].rags) = 1
    /\ last.rag_id \in DOMAIN user_store[CurrentUser].rags \cup {RagId(1), RagId(2)}
    /\ \E name \in DOMAIN chroma : chroma[name] # <<>>
    /\ \A v \in Users \ {CurrentUser} : DOMAIN user_store[v].rags = {}

\* C30: after initialize_chat_state and any sequence of add_user_message and
\* add_assistant_response, message_counter is the number of messages and
\* the i-th message (0-based) has timestamp i.
C30_CounterNumbersTheMessages ==
    "chat_messages" \in session_state.keys =>
        /\ session_state.message_counter = Len(session_state.chat_messages)
        /\ \A i \in 1..Len(session_state.chat_messages) :
              session_state.chat_messages[i].timestamp = i - 1

\* A history of a user's message and the assistant's answer.
C30_Witness ==
    /\ "chat_messages" \in session_state.keys
    /\ Len(session_state.chat_messages) = 2
    /\ session_state.chat_messages[1].type = "user"
    /\ session_state.chat_messages[2].type = "assistant"
    /\ last.op = "assistant"

====
